---------------------------- MODULE Spec2Model ----------------------------
(***************************************************************************)
(* Model of the `connected` Universal NFT program                          *)
(* (solana/programs/connected/src/lib.rs).                                 *)
(*                                                                         *)
(* State: the UniversalNFTState singleton, the NFTInfo accounts, the SPL   *)
(* mints and token accounts the instructions act on, the messages held by  *)
(* the ZetaChain gateway, and the outcome of the last instruction.         *)
(* Every instruction is one atomic action: a failing instruction changes   *)
(* nothing but the recorded outcome (Solana rolls the transaction back).   *)
(***************************************************************************)
EXTENDS Integers, Sequences, FiniteSets

(***************************************************************************)
(* Bounds of the model.                                                    *)
(***************************************************************************)
\* u64 is modelled as WordBits bits wide: arithmetic on token ids and on
\* total_supply is taken modulo 2^WordBits.
WordBits == 8
\* Units outstanding over all mints up to which a mint authority mints more
\* (SPL mint_to outside the program).
MaxUnits == 3
U64Max == 2^WordBits - 1

(***************************************************************************)
(* Identities (Pubkey values).                                             *)
(***************************************************************************)
Users == {"alice", "bob"}
Gateway == "gateway"
PdaKey == "pda"
DefaultPubkey == "default"
Identities == Users \cup {Gateway, PdaKey, DefaultPubkey}


\* The byte every position of an identity's 32-byte key holds.
KeyByte(id) ==
    CASE id = DefaultPubkey -> 0
      [] id = "alice" -> 1
      [] id = "bob" -> 2
      [] id = Gateway -> 3
      [] id = PdaKey -> 4

PubkeyLen == 32
AddressLen == 20

PubkeyBytes(id) == [i \in 1..PubkeyLen |-> KeyByte(id)]

PubkeyFromBytes(bs) ==
    IF \E id \in Identities : PubkeyBytes(id) = bs
    THEN CHOOSE id \in Identities : PubkeyBytes(id) = bs
    ELSE "unknown"

(***************************************************************************)
(* Borsh encoding, as derived by AnchorSerialize / AnchorDeserialize.      *)
(***************************************************************************)
RECURSIVE LEBytes(_, _)
\* n as k little-endian bytes.
LEBytes(n, k) == IF k = 0 THEN <<>> ELSE <<n % 256>> \o LEBytes(n \div 256, k - 1)

RECURSIVE LEValue(_)
\* The integer a little-endian byte string denotes.
LEValue(bs) == IF bs = <<>> THEN 0 ELSE Head(bs) + 256 * LEValue(Tail(bs))

\* A u32 length prefix at pos. A value of 2^31 or more exceeds every buffer
\* length; it is read as the largest representable length.
LenAt(data, pos) ==
    IF data[pos + 3] >= 128 THEN 2147483647
    ELSE LEValue(SubSeq(data, pos, pos + 3))

ReadFail == [ok |-> FALSE, val |-> <<>>, next |-> 0]

\* Vec<u8>: a u32 length, then that many bytes.
ReadVec(data, pos) ==
    IF pos + 3 > Len(data) THEN ReadFail
    ELSE LET n == LenAt(data, pos) IN
         IF n > Len(data) - (pos + 3) THEN ReadFail
         ELSE [ok |-> TRUE, val |-> SubSeq(data, pos + 4, pos + 3 + n), next |-> pos + 4 + n]

\* String: a Vec<u8> that is valid UTF-8 (bytes below 128 are; multi-byte
\* sequences are not generated by the model and are rejected here).
ReadString(data, pos) ==
    LET v == ReadVec(data, pos) IN
    IF v.ok /\ \A i \in 1..Len(v.val) : v.val[i] < 128 THEN v ELSE ReadFail

\* [u8; n].
ReadArray(data, pos, n) ==
    IF pos + n - 1 > Len(data) THEN ReadFail
    ELSE [ok |-> TRUE, val |-> SubSeq(data, pos, pos + n - 1), next |-> pos + n]

WriteVec(bs) == LEBytes(Len(bs), 4) \o bs

\* CrossChainNFTTransfer, serialized field by field.
EncodeNFTTransfer(m) ==
    LEBytes(m.token_id, 8) \o WriteVec(m.name) \o WriteVec(m.symbol) \o WriteVec(m.uri)
        \o PubkeyBytes(m.receiver) \o WriteVec(m.source_chain)

DecodeFail == [ok |-> FALSE]

\* CrossChainNFTTransfer::deserialize(&mut &data[..]): reads the fields in
\* order; bytes left over after the last field are not an error.
DecodeNFTTransfer(data) ==
    LET tok == ReadArray(data, 1, 8) IN
    IF ~tok.ok THEN DecodeFail ELSE
    LET name == ReadString(data, tok.next) IN
    IF ~name.ok THEN DecodeFail ELSE
    LET symbol == ReadString(data, name.next) IN
    IF ~symbol.ok THEN DecodeFail ELSE
    LET uri == ReadString(data, symbol.next) IN
    IF ~uri.ok THEN DecodeFail ELSE
    LET receiver == ReadArray(data, uri.next, PubkeyLen) IN
    IF ~receiver.ok THEN DecodeFail ELSE
    LET chain == ReadVec(data, receiver.next) IN
    IF ~chain.ok THEN DecodeFail ELSE
    [ok |-> TRUE,
     token_id |-> LEValue(tok.val),
     name |-> name.val,
     symbol |-> symbol.val,
     uri |-> uri.val,
     receiver |-> PubkeyFromBytes(receiver.val),
     source_chain |-> chain.val]

\* CrossChainMessage { message_type, token_id, recipient_address, metadata_uri }
\* with message_type = MessageType::Mint (variant index 0).
EncodeCrossChainMessage(token_id, recipient_address, metadata_uri) ==
    <<0>> \o LEBytes(token_id, 8) \o recipient_address \o WriteVec(metadata_uri)

\* b"NFT transfer failed"
RevertMessageBytes ==
    <<78, 70, 84, 32, 116, 114, 97, 110, 115, 102, 101, 114, 32, 102, 97, 105, 108, 101, 100>>


(***************************************************************************)
(* Inputs of the instructions, drawn from small sets.                      *)
(***************************************************************************)
\* token_id arguments of burn_nft and transfer_cross_chain: the first id, and
\* the largest u64.
TokenIdInputs == {1, U64Max}
\* token_id arguments of mint_nft: those, and an id below the first watermark.
MintTokenIdInputs == TokenIdInputs \cup {0}
\* token ids carried by inbound messages: one that mint_nft also issues
\* locally, and one that exists only on the foreign ledger.
ForeignTokenId == 2
MsgTokenIds == {1, ForeignTokenId}

NftName == <<78>>
NftSymbol == <<83>>
NftUri == <<117>>
SourceChain == <<101>>
RecipientAddress == [i \in 1..AddressLen |-> 170]
SenderAddress == [i \in 1..AddressLen |-> 187]
DestinationChainId == 7
DestinationChain == <<55>>
DestinationReceiver == <<114>>
Timestamp == 1700
RevertedAmount == 1
OnRevertGasLimit == 100000

\* The transfer messages a foreign ledger sends through the gateway.
Messages ==
    {[token_id |-> t, name |-> NftName, symbol |-> NftSymbol, uri |-> NftUri,
      receiver |-> "alice", source_chain |-> SourceChain] : t \in MsgTokenIds}

\* The data on_call is invoked with: a transfer message, or other bytes.
CallData ==
    {EncodeNFTTransfer(m) : m \in Messages} \cup {RevertMessageBytes}

\* The data on_revert is invoked with: the transfer message of a locally
\* minted token, or the revert_message registered by transfer_cross_chain.
RevertData ==
    {EncodeNFTTransfer(m) : m \in {x \in Messages : x.token_id \in TokenIdInputs}}
        \cup {RevertMessageBytes}

\* CrossChainNFTTransfer::deserialize on each of the inputs.
Decoded == [data \in CallData \cup RevertData |-> DecodeNFTTransfer(data)]

\* Who invokes on_call and on_revert: the gateway, or someone else.
Callers == {Gateway, "bob"}
\* Who signs mint_nft.
Minters == {"alice"}

(***************************************************************************)
(* Accounts. An account an instruction takes at the caller's choice (the   *)
(* `mint` of transfer_cross_chain, the `mint_account` of on_call) ranges    *)
(* over the initialized accounts of its type; an account derived from an   *)
(* argument by seeds exists or not.                                        *)
(***************************************************************************)
\* The mint PDA of seeds ["nft_mint", token_id], created by mint_nft.
NftMint(t) == [kind |-> "nft_mint", id |-> t]
\* A mint created outside the program with the program PDA as mint authority.
ExtMint(n) == [kind |-> "ext", id |-> n]
ExtMints == {ExtMint(1), ExtMint(2)}
\* The all-zero key read as a mint.
DefaultMint == [kind |-> "default", id |-> 0]
NftMints == {NftMint(t) : t \in MintTokenIdInputs}
AllMints == NftMints \cup ExtMints

\* Owners of token accounts: the associated token account of (mint, holder).
Holders == Users \cup {PdaKey, Gateway}
Ata(m, h) == <<m, h>>

VARIABLES
    universal_nft_state,  \* UniversalNFTState: authority, total_supply, next_token_id
    nft_info,             \* NFTInfo accounts of seeds ["nft_info", token_id]
    nft_info_by_mint,     \* NFTInfo accounts of seeds ["nft_info", mint key]
    mint_authority,       \* the existing SPL mints and their mint authority
    balances,             \* token account balances; an account never credited holds 0
    gw_outbound,          \* calls handed to the gateway by transfer_cross_chain
    gw_inbound,           \* messages the gateway holds for delivery to on_call
    foreign_live,         \* token ids live on the foreign ledger
    inbound_token,        \* per mint credited by on_call, the token_id of its message
    overflow_checks,      \* whether the build panics on integer overflow
    result                \* outcome of the last instruction

vars == <<universal_nft_state, nft_info, nft_info_by_mint, mint_authority, balances,
          gw_outbound, gw_inbound, foreign_live, inbound_token, overflow_checks, result>>

\* Everything an instruction of the program can write.
program_state == <<universal_nft_state, nft_info, nft_info_by_mint, mint_authority,
                   balances, gw_outbound, inbound_token>>

NoOption == <<>>
Some(v) == <<v>>

\* An account created by `init` and never written: every field zero or empty.
ZeroedNFTInfo ==
    [token_id |-> 0, name |-> <<>>, symbol |-> <<>>, uri |-> <<>>,
     owner |-> DefaultPubkey, mint |-> DefaultMint, is_burned |-> FALSE,
     cross_chain_data |-> NoOption]

Ok == "Ok"

\* The outcome of an instruction: its arguments, its error and its events.
\* redelivery: a gateway callback invoked with the data of the call before it.
Outcome(op, signer, token_id, data, err, events) ==
    [op |-> op, signer |-> signer, token_id |-> token_id, data |-> data,
     err |-> err, events |-> events,
     redelivery |-> /\ op \in {"on_call", "on_revert"}
                    /\ result.op = op /\ result.data = data /\ result.err = Ok]

\* Units of mint m outstanding over all token accounts.
RECURSIVE SumOver(_, _, _)
SumOver(bal, m, hs) ==
    IF hs = {} THEN 0
    ELSE LET h == CHOOSE x \in hs : TRUE IN bal[Ata(m, h)] + SumOver(bal, m, hs \ {h})
Supply(m) == SumOver(balances, m, Holders)

\* Units outstanding over all mints.
RECURSIVE SumSupply(_)
SumSupply(ms) ==
    IF ms = {} THEN 0
    ELSE LET m == CHOOSE x \in ms : TRUE IN Supply(m) + SumSupply(ms \ {m})
UnitsOutstanding == SumSupply(AllMints)

Credit(bal, acct, n) == [bal EXCEPT ![acct] = @ + n]
Debit(bal, acct, n) == [bal EXCEPT ![acct] = @ - n]

\* u64 arithmetic: the wrapped value, and whether the operation overflows.
WrapAdd(a, b) == (a + b) % (U64Max + 1)
WrapSub(a, b) == (a - b + U64Max + 1) % (U64Max + 1)
AddOverflows(a, b) == a + b > U64Max
SubOverflows(a, b) == a < b

\* The account at key k of an account map, created with content v.
Created(accounts, k, v) ==
    [x \in DOMAIN accounts \cup {k} |-> IF x = k THEN v ELSE accounts[x]]

(***************************************************************************)
(* initialize                                                              *)
(***************************************************************************)
\* The state after initialize, with the external mints `mints` in existence.
Initialized(mints) ==
    /\ universal_nft_state = [authority |-> "alice", total_supply |-> 0, next_token_id |-> 1]
    /\ nft_info = <<>>
    /\ nft_info_by_mint = <<>>
    /\ mint_authority = [m \in mints |-> PdaKey]
    /\ balances = [a \in AllMints \X Holders |-> 0]
    /\ gw_outbound = {}
    /\ gw_inbound = {}
    /\ foreign_live = {ForeignTokenId}
    /\ inbound_token = <<>>
    /\ overflow_checks \in BOOLEAN
    /\ result = [op |-> "initialize", signer |-> "alice", token_id |-> 0, data |-> <<>>,
                 err |-> Ok, events |-> <<>>, redelivery |-> FALSE]

Init == Initialized({ExtMint(1)})

\* A failed instruction: the transaction is rolled back.
Fail(r) ==
    /\ result' = r
    /\ UNCHANGED <<program_state, overflow_checks>>

(***************************************************************************)
(* mint_nft                                                                *)
(***************************************************************************)
\* The error mint_nft ends with, or Ok. The `init` constraints of MintNFT
\* are validated before the handler runs.
MintNftError(token_id) ==
    IF NftMint(token_id) \in DOMAIN mint_authority \/ token_id \in DOMAIN nft_info
        THEN "AccountAlreadyInUse"
    ELSE IF ~(token_id >= universal_nft_state.next_token_id) THEN "TokenIdTaken"
    ELSE IF overflow_checks /\ (AddOverflows(universal_nft_state.total_supply, 1)
                                \/ AddOverflows(token_id, 1))
        THEN "ProgramPanic"
    ELSE Ok

\* mint_nft raising the watermark without counting the token in total_supply.
MintNftStateNoSupply(token_id) ==
    [universal_nft_state EXCEPT
        !.next_token_id = IF token_id >= @ THEN WrapAdd(token_id, 1) ELSE @]

\* universal_nft_state after a successful mint_nft of token_id.
MintNftState(token_id) ==
    [universal_nft_state EXCEPT
        !.total_supply = WrapAdd(@, 1),
        !.next_token_id = IF token_id >= @ THEN WrapAdd(token_id, 1) ELSE @]

MintNft ==
    \E signer \in Minters, token_id \in MintTokenIdInputs, to \in Users :
        LET err == MintNftError(token_id)
            mint == NftMint(token_id)
            minted == [kind |-> "NFTMinted", token_id |-> token_id, owner |-> to,
                       uri |-> NftUri, mint |-> mint]
        IN  /\ UNCHANGED <<gw_inbound, foreign_live>>
            /\ IF err # Ok
               THEN Fail(Outcome("mint_nft", signer, token_id, <<>>, err, <<>>))
               ELSE /\ mint_authority' = Created(mint_authority, mint, signer)
                    /\ balances' = Credit(balances, Ata(mint, signer), 1)
                    /\ nft_info' = Created(nft_info, token_id,
                           [token_id |-> token_id, name |-> NftName, symbol |-> NftSymbol,
                            uri |-> NftUri, owner |-> to, mint |-> mint,
                            is_burned |-> FALSE, cross_chain_data |-> NoOption])
                    /\ universal_nft_state' = MintNftState(token_id)
                    /\ result' = Outcome("mint_nft", signer, token_id, <<>>, Ok, <<minted>>)
                    /\ UNCHANGED <<nft_info_by_mint, gw_outbound, inbound_token,
                                   overflow_checks>>

(***************************************************************************)
(* burn_nft                                                                *)
(***************************************************************************)
\* burn_nft without its is_burned requirement.
BurnNftErrorNoBurnedCheck(signer, token_id) ==
    IF token_id \notin DOMAIN nft_info THEN "AccountNotInitialized"
    ELSE IF nft_info[token_id].owner # signer THEN "NotOwner"
    ELSE IF balances[Ata(NftMint(token_id), signer)] < 1 THEN "InsufficientFunds"
    ELSE IF overflow_checks /\ SubOverflows(universal_nft_state.total_supply, 1)
        THEN "ProgramPanic"
    ELSE Ok

\* burn_nft without its owner requirement.
BurnNftErrorNoOwnerCheck(signer, token_id) ==
    IF token_id \notin DOMAIN nft_info THEN "AccountNotInitialized"
    ELSE IF nft_info[token_id].is_burned THEN "AlreadyBurned"
    ELSE IF balances[Ata(NftMint(token_id), signer)] < 1 THEN "InsufficientFunds"
    ELSE IF overflow_checks /\ SubOverflows(universal_nft_state.total_supply, 1)
        THEN "ProgramPanic"
    ELSE Ok

\* The error burn_nft ends with, or Ok.
BurnNftError(signer, token_id) ==
    IF token_id \notin DOMAIN nft_info THEN "AccountNotInitialized"
    ELSE IF nft_info[token_id].owner # signer THEN "NotOwner"
    ELSE IF nft_info[token_id].is_burned THEN "AlreadyBurned"
    ELSE IF balances[Ata(NftMint(token_id), signer)] < 1 THEN "InsufficientFunds"
    ELSE IF overflow_checks /\ SubOverflows(universal_nft_state.total_supply, 1)
        THEN "ProgramPanic"
    ELSE Ok

BurnNft ==
    \E signer \in Users, token_id \in TokenIdInputs :
        LET err == BurnNftError(signer, token_id)
            burned == [kind |-> "NFTBurned", token_id |-> token_id,
                       owner |-> nft_info[token_id].owner,
                       destination_chain |-> DestinationChain,
                       destination_receiver |-> DestinationReceiver,
                       uri |-> nft_info[token_id].uri]
        IN  /\ UNCHANGED <<gw_inbound, foreign_live>>
            /\ IF err # Ok
               THEN Fail(Outcome("burn_nft", signer, token_id, <<>>, err, <<>>))
               ELSE /\ balances' = Debit(balances, Ata(NftMint(token_id), signer), 1)
                    /\ nft_info' = [nft_info EXCEPT ![token_id].is_burned = TRUE]
                    /\ universal_nft_state' =
                           [universal_nft_state EXCEPT !.total_supply = WrapSub(@, 1)]
                    /\ result' = Outcome("burn_nft", signer, token_id, <<>>, Ok, <<burned>>)
                    /\ UNCHANGED <<nft_info_by_mint, mint_authority, gw_outbound,
                                   inbound_token, overflow_checks>>

(***************************************************************************)
(* on_call                                                                 *)
(***************************************************************************)
\* on_call mapping a decoding failure to another variant of ErrorCode.
OnCallErrorInvalidDataFormat(caller, data, mint_account) ==
    IF mint_account \in DOMAIN nft_info_by_mint THEN "AccountAlreadyInUse"
    ELSE IF ~Decoded[data].ok THEN "InvalidDataFormat"
    ELSE IF mint_authority[mint_account] # PdaKey THEN "OwnerMismatch"
    ELSE Ok

\* The error on_call ends with, or Ok. OnCall names no signer and holds no
\* constraint on the invoking program: the caller does not enter.
OnCallError(caller, data, mint_account) ==
    IF mint_account \in DOMAIN nft_info_by_mint THEN "AccountAlreadyInUse"
    ELSE IF ~Decoded[data].ok THEN "DecodingError"
    ELSE IF mint_authority[mint_account] # PdaKey THEN "OwnerMismatch"
    ELSE Ok

\* The event on_call emits.
OnCallEvent(transfer_data, sender) ==
    [kind |-> "CrossChainTransferReceived", token_id |-> transfer_data.token_id,
     sender |-> sender, receiver |-> PdaKey, name |-> transfer_data.name,
     symbol |-> transfer_data.symbol, uri |-> transfer_data.uri]

\* on_call writing the record of the message's token_id, as an overwrite.
OnCallNFTInfoOverwriting(transfer_data) ==
    Created(nft_info, transfer_data.token_id,
        [token_id |-> transfer_data.token_id, name |-> transfer_data.name,
         symbol |-> transfer_data.symbol, uri |-> transfer_data.uri,
         owner |-> transfer_data.receiver, mint |-> NftMint(transfer_data.token_id),
         is_burned |-> FALSE, cross_chain_data |-> NoOption])

\* The NFTInfo accounts of seeds ["nft_info", token_id] after on_call: OnCall
\* holds none of them, its nft_info is the account of seeds
\* ["nft_info", mint_account].
OnCallNFTInfo(transfer_data) == nft_info

\* on_call with `pda_ata` the token account of (mint_account, pda_ata_holder).
\* The handler writes no field of the NFTInfo account that `init` creates.
OnCallBy(caller, data, mint_account, pda_ata_holder) ==
    LET err == OnCallError(caller, data, mint_account)
        transfer_data == Decoded[data]
    IN  /\ UNCHANGED foreign_live
        /\ IF err # Ok
           THEN Fail(Outcome("on_call", caller, 0, data, err, <<>>))
           ELSE /\ balances' = Credit(balances, Ata(mint_account, pda_ata_holder), 1)
                /\ nft_info_by_mint' = Created(nft_info_by_mint, mint_account, ZeroedNFTInfo)
                /\ inbound_token' =
                       Created(inbound_token, mint_account, transfer_data.token_id)
                /\ result' = Outcome("on_call", caller, 0, data, Ok,
                       <<OnCallEvent(transfer_data, SenderAddress)>>)
                /\ nft_info' = OnCallNFTInfo(transfer_data)
                /\ UNCHANGED <<universal_nft_state, mint_authority, gw_outbound,
                               overflow_checks>>

OnCall ==
    \E caller \in Callers, data \in CallData, mint_account \in DOMAIN mint_authority :
        /\ OnCallBy(caller, data, mint_account, PdaKey)
        /\ UNCHANGED gw_inbound

(***************************************************************************)
(* on_revert                                                               *)
(***************************************************************************)
\* The events on_revert emits.
OnRevertEvents(sender, amount, data) ==
    LET transfer_data == Decoded[data] IN
    IF transfer_data.ok
    THEN <<[kind |-> "CrossChainTransferReverted", token_id |-> transfer_data.token_id,
            original_sender |-> sender, reverted_amount |-> amount]>>
    ELSE <<>>

\* on_revert returning the record of the token its data names to not burned.
OnRevertNFTInfoRestoring(data) ==
    IF Decoded[data].ok /\ Decoded[data].token_id \in DOMAIN nft_info
    THEN [nft_info EXCEPT ![Decoded[data].token_id].is_burned = FALSE,
                          ![Decoded[data].token_id].cross_chain_data = NoOption]
    ELSE nft_info

\* The NFTInfo accounts and the registry after on_revert: OnRevert holds
\* neither account and the handler writes nothing.
OnRevertNFTInfo(data) == nft_info

\* on_revert crediting total_supply for the token its data names.
OnRevertStateCrediting(data) ==
    IF Decoded[data].ok /\ Decoded[data].token_id \in DOMAIN nft_info
    THEN [universal_nft_state EXCEPT !.total_supply = WrapAdd(@, 1)]
    ELSE universal_nft_state

OnRevertState(data) == universal_nft_state

\* on_revert returning the decoding failure to its caller.
OnRevertErrorStrict(data) == IF Decoded[data].ok THEN Ok ELSE "DecodingError"

\* The error on_revert ends with: `if let Ok(..)` skips data that does not
\* decode and the handler ends with Ok(()).
OnRevertError(data) == Ok

\* on_revert: any signer is accepted and a decoding failure is not an error.
OnRevertBy(signer, sender, data) ==
    /\ UNCHANGED <<gw_inbound, foreign_live>>
    /\ IF OnRevertError(data) # Ok
       THEN Fail(Outcome("on_revert", signer, 0, data, OnRevertError(data), <<>>))
       ELSE /\ nft_info' = OnRevertNFTInfo(data)
            /\ universal_nft_state' = OnRevertState(data)
            /\ result' = Outcome("on_revert", signer, 0, data, Ok,
                   OnRevertEvents(sender, RevertedAmount, data))
            /\ UNCHANGED <<nft_info_by_mint, mint_authority, balances, inbound_token,
                           overflow_checks>>

OnRevert ==
    \E signer \in Callers, sender \in Minters, data \in RevertData :
        /\ OnRevertBy(signer, sender, data)
        /\ UNCHANGED gw_outbound

(***************************************************************************)
(* transfer_cross_chain                                                    *)
(***************************************************************************)
\* The error transfer_cross_chain ends with, or Ok. TransferCrossChain takes
\* `mint` without seeds: any mint is accepted. The gateway deposits
\* one unit from the token account the handler has just burned one unit of.
TransferCrossChainError(signer, token_id, mint, gateway_accepts) ==
    IF token_id \notin DOMAIN nft_info THEN "AccountNotInitialized"
    ELSE IF nft_info[token_id].owner # signer THEN "NotOwner"
    ELSE IF nft_info[token_id].is_burned THEN "AlreadyBurned"
    ELSE IF balances[Ata(mint, signer)] < 1 THEN "InsufficientFunds"
    ELSE IF balances[Ata(mint, signer)] - 1 < 1 THEN "InsufficientFunds"
    ELSE IF ~gateway_accepts THEN "GatewayError"
    ELSE Ok

\* The call deposit_spl_token_and_call hands to the gateway.
GatewayCall(signer, token_id) ==
    [token_id |-> token_id,
     sender |-> signer,
     receiver |-> RecipientAddress,
     message |-> EncodeCrossChainMessage(token_id, RecipientAddress, NftUri),
     revert_address |-> signer,
     call_on_revert |-> TRUE,
     abort_address |-> RecipientAddress,
     revert_message |-> RevertMessageBytes,
     on_revert_gas_limit |-> OnRevertGasLimit]

TransferCrossChain ==
    \E signer \in Users, token_id \in TokenIdInputs, mint \in DOMAIN mint_authority :
    \* The gateway is invoked, and accepts or rejects, once the handler reaches it.
    \E gateway_accepts \in IF TransferCrossChainError(signer, token_id, mint, TRUE) = Ok
                            THEN BOOLEAN ELSE {TRUE} :
        LET err == TransferCrossChainError(signer, token_id, mint, gateway_accepts)
            event == [kind |-> "CrossChainTransferEvent", token_id |-> token_id,
                      from_chain |-> "Solana", to_chain |-> DestinationChainId,
                      sender |-> signer, receiver |-> RecipientAddress]
        IN  /\ UNCHANGED <<gw_inbound, foreign_live>>
            /\ IF err # Ok
               THEN Fail(Outcome("transfer_cross_chain", signer, token_id, <<>>, err, <<>>))
               ELSE /\ balances' = Credit(Debit(Debit(balances, Ata(mint, signer), 1),
                                                Ata(mint, signer), 1),
                                          Ata(mint, Gateway), 1)
                    /\ nft_info' = [nft_info EXCEPT
                           ![token_id].is_burned = TRUE,
                           ![token_id].cross_chain_data =
                               Some([destination_chain_id |-> DestinationChainId,
                                     recipient_address |-> RecipientAddress,
                                     transfer_timestamp |-> Timestamp])]
                    /\ gw_outbound' = gw_outbound \cup {GatewayCall(signer, token_id)}
                    /\ result' = Outcome("transfer_cross_chain", signer, token_id, <<>>, Ok,
                                         <<event>>)
                    /\ UNCHANGED <<universal_nft_state, nft_info_by_mint, mint_authority,
                                   inbound_token, overflow_checks>>

(***************************************************************************)
(* The SPL token program, invoked directly by a mint authority.            *)
(***************************************************************************)
\* mint_nft makes its signer the mint authority of the NFT mint: the signer
\* can mint further units, here to its own token account of that mint.
SplMintTo ==
    \E mint \in DOMAIN mint_authority, to \in Users :
        /\ mint_authority[mint] = to
        /\ UnitsOutstanding < MaxUnits
        /\ balances' = Credit(balances, Ata(mint, to), 1)
        /\ result' = Outcome("spl_mint_to", mint_authority[mint], mint.id, <<>>, Ok, <<>>)
        /\ UNCHANGED <<universal_nft_state, nft_info, nft_info_by_mint, mint_authority,
                       gw_outbound, gw_inbound, foreign_live, inbound_token,
                       overflow_checks>>

Next ==
    \/ MintNft
    \/ BurnNft
    \/ TransferCrossChain
    \/ OnCall
    \/ OnRevert
    \/ SplMintTo

Spec == Init /\ [][Next]_vars


(***************************************************************************)
(* Two ledgers joined by the gateway. The gateway holds each message until *)
(* it is delivered; it may deliver late, never, or again after a delivery. *)
(* burn_nft hands nothing to the gateway and is not part of this system.   *)
(***************************************************************************)
\* The foreign ledger burns a token it holds and sends its transfer message.
ForeignInitiate ==
    \E m \in Messages :
        /\ m.token_id \in foreign_live
        /\ foreign_live' = foreign_live \ {m.token_id}
        /\ gw_inbound' = gw_inbound \cup {EncodeNFTTransfer(m)}
        /\ result' = Outcome("foreign_initiate", Gateway, m.token_id, <<>>, Ok, <<>>)
        /\ UNCHANGED <<program_state, overflow_checks>>

\* The foreign ledger receives an outbound call, once, and mints the token.
ForeignReceive ==
    \E call \in gw_outbound :
        /\ foreign_live' = foreign_live \cup {call.token_id}
        /\ gw_outbound' = gw_outbound \ {call}
        /\ result' = Outcome("foreign_receive", Gateway, call.token_id, <<>>, Ok, <<>>)
        /\ UNCHANGED <<universal_nft_state, nft_info, nft_info_by_mint, mint_authority,
                       balances, inbound_token, gw_inbound, overflow_checks>>

\* The gateway delivers an inbound message to on_call, and keeps it for
\* another delivery or not.
GatewayDeliver ==
    \E data \in gw_inbound, mint_account \in DOMAIN mint_authority,
       redeliver \in BOOLEAN :
        /\ OnCallBy(Gateway, data, mint_account, PdaKey)
        /\ gw_inbound' = IF OnCallError(Gateway, data, mint_account) = Ok /\ ~redeliver
                         THEN gw_inbound \ {data} ELSE gw_inbound

\* The gateway reports an outbound call as reverted, with the revert_message
\* registered for it, and keeps the call for another delivery or not.
GatewayRevert ==
    \E call \in gw_outbound, redeliver \in BOOLEAN :
        /\ call.call_on_revert
        /\ OnRevertBy(Gateway, call.sender, call.revert_message)
        /\ gw_outbound' = IF redeliver THEN gw_outbound ELSE gw_outbound \ {call}

InitBridge == Initialized(ExtMints)

NextBridge ==
    \/ MintNft
    \/ TransferCrossChain
    \/ SplMintTo
    \/ ForeignInitiate
    \/ ForeignReceive
    \/ GatewayDeliver
    \/ GatewayRevert

SpecBridge == InitBridge /\ [][NextBridge]_vars

(***************************************************************************)
(* Properties.                                                             *)
(***************************************************************************)
\* Every NFTInfo account: those keyed by token id and those keyed by mint.
Records ==
    {[key |-> <<"token_id", t>>, info |-> nft_info[t]] : t \in DOMAIN nft_info}
        \cup {[key |-> <<"mint", m.id>>, info |-> nft_info_by_mint[m]]
              : m \in DOMAIN nft_info_by_mint}

LiveRecords == {r \in Records : ~r.info.is_burned}

\* C1: total_supply equals the number of token records that are not Burned.
C1_SupplyConservation ==
    universal_nft_state.total_supply = Cardinality(LiveRecords)

\* Live representations of token t on this ledger: its minted record when not
\* burned, and every unit on_call minted for a message of t.
LocalLive(t) ==
    (IF t \in DOMAIN nft_info /\ ~nft_info[t].is_burned THEN 1 ELSE 0)
        + Cardinality({m \in DOMAIN inbound_token : inbound_token[m] = t /\ Supply(m) >= 1})
ForeignLive(t) == IF t \in foreign_live THEN 1 ELSE 0
InFlight(t) ==
    \/ \E call \in gw_outbound : call.token_id = t
    \/ \E data \in gw_inbound : Decoded[data].token_id = t
Tokens == {ForeignTokenId} \cup DOMAIN nft_info

\* C2: each token has at most one live representation over both ledgers, and
\* exactly one whenever no transfer of it is in flight, also when the gateway
\* delivers an inbound message a second time.
C2_OneLiveRepresentation ==
    \A t \in Tokens :
        /\ LocalLive(t) + ForeignLive(t) <= 1
        /\ ~InFlight(t) => LocalLive(t) + ForeignLive(t) = 1

\* C3: next_token_id never decreases, whatever token_id mint_nft is given.
C3_WatermarkMonotonic ==
    [][universal_nft_state'.next_token_id >= universal_nft_state.next_token_id]_vars

MintSucceeds == result'.op = "mint_nft" /\ result'.err = Ok

\* C4: no two successful mints are issued the same token_id, no two live
\* records share a token_id, and right after a successful mint of t the
\* watermark is above t.
C4_Uniqueness ==
    [][/\ MintSucceeds =>
            /\ result'.token_id \notin DOMAIN nft_info
            /\ result'.token_id < universal_nft_state'.next_token_id
       /\ \A r1, r2 \in LiveRecords' :
            r1.info.token_id = r2.info.token_id => r1.key = r2.key]_vars

\* An outbound transfer attempt on a token whose record is burned (an earlier
\* outbound transfer succeeded; nothing in the program clears is_burned),
\* signed by the record's owner.
SecondOutboundAttempt ==
    /\ result'.op \in {"burn_nft", "transfer_cross_chain"}
    /\ result'.token_id \in DOMAIN nft_info
    /\ nft_info[result'.token_id].is_burned
    /\ nft_info[result'.token_id].owner = result'.signer

\* C5: a second outbound transfer of a token by its owner fails with
\* AlreadyBurned and changes no state.
C5_NoDoubleBurn ==
    [][SecondOutboundAttempt =>
            /\ result'.err = "AlreadyBurned"
            /\ result'.events = <<>>
            /\ UNCHANGED program_state]_vars

\* An owner's outbound attempt on a burned token has been rejected.
C5_Witness ==
    /\ result.op \in {"burn_nft", "transfer_cross_chain"}
    /\ result.err = "AlreadyBurned"
    /\ result.token_id \in DOMAIN nft_info
    /\ nft_info[result.token_id].owner = result.signer
    /\ nft_info[result.token_id].is_burned

\* C6: on_call and on_revert invoked by anyone but the gateway fail with
\* Unauthorized, change no state and emit no event.
C6_GatewayOnly ==
    [][(result'.op \in {"on_call", "on_revert"} /\ result'.signer # Gateway) =>
            /\ result'.err = "Unauthorized"
            /\ result'.events = <<>>
            /\ UNCHANGED program_state]_vars

\* The gateway reverts with the message of token t, whose outbound transfer
\* is outstanding.
RevertOfOutstanding(t) ==
    /\ result'.op = "on_revert"
    /\ result'.signer = Gateway
    /\ Decoded[result'.data].ok
    /\ Decoded[result'.data].token_id = t
    /\ nft_info[t].is_burned

\* C7: on_revert for a token whose outbound transfer is outstanding returns
\* the record to Active, increments total_supply and clears the pending
\* transfer data.
C7_RevertRestores ==
    [][\A t \in DOMAIN nft_info :
        RevertOfOutstanding(t) =>
            /\ ~nft_info'[t].is_burned
            /\ nft_info'[t].cross_chain_data = NoOption
            /\ universal_nft_state'.total_supply
                   = universal_nft_state.total_supply + 1]_vars

\* C8: a second on_revert with the same payload changes neither the records
\* nor total_supply: total_supply is not credited twice.
C8_RevertIdempotent ==
    [][(result'.op = "on_revert" /\ result'.redelivery) =>
            /\ nft_info' = nft_info
            /\ nft_info_by_mint' = nft_info_by_mint
            /\ universal_nft_state' = universal_nft_state]_vars

\* on_revert has been called a second time with the message of a token whose
\* outbound transfer succeeded.
C8_Witness ==
    /\ result.op = "on_revert"
    /\ result.redelivery
    /\ Decoded[result.data].ok
    /\ Decoded[result.data].token_id \in DOMAIN nft_info
    /\ nft_info[Decoded[result.data].token_id].is_burned

\* C9: after a successful on_call of message m by the gateway, a live record
\* of m.token_id exists that carries m's name, symbol and uri and is owned by
\* m's receiver.
C9_InboundRecord ==
    (result.op = "on_call" /\ result.err = Ok /\ result.signer = Gateway) =>
        \E r \in LiveRecords :
            /\ r.info.token_id = Decoded[result.data].token_id
            /\ r.info.name = Decoded[result.data].name
            /\ r.info.symbol = Decoded[result.data].symbol
            /\ r.info.uri = Decoded[result.data].uri
            /\ r.info.owner = Decoded[result.data].receiver

\* C10: a successful on_call mints exactly one unit, to the token account of
\* the receiver its message names, and reports that receiver in its event.
C10_InboundUnit ==
    [][(result'.op = "on_call" /\ result'.err = Ok) =>
            /\ \E m \in AllMints :
                   balances' = Credit(balances, Ata(m, Decoded[result'.data].receiver), 1)
            /\ result'.events[1].receiver = Decoded[result'.data].receiver]_vars

\* C11: mint_nft with a token_id below next_token_id fails with TokenIdTaken
\* and changes neither total_supply, next_token_id nor any record; mint_nft
\* with a token_id at or above next_token_id does not fail with TokenIdTaken.
C11_TokenIdTaken ==
    [][result'.op = "mint_nft" =>
            IF result'.token_id < universal_nft_state.next_token_id
            THEN /\ result'.err = "TokenIdTaken"
                 /\ UNCHANGED <<universal_nft_state, nft_info, nft_info_by_mint>>
            ELSE result'.err # "TokenIdTaken"]_vars

\* An outbound transfer attempt on an existing record, signed by someone who
\* is not its owner.
OutboundByNonOwner ==
    /\ result'.op \in {"burn_nft", "transfer_cross_chain"}
    /\ result'.token_id \in DOMAIN nft_info
    /\ nft_info[result'.token_id].owner # result'.signer

\* C12: burn_nft and transfer_cross_chain invoked by a caller who is not the
\* record's owner fail with NotOwner, emit no event and leave the records,
\* total_supply and the token balances unchanged.
C12_NotOwner ==
    [][OutboundByNonOwner =>
            /\ result'.err = "NotOwner"
            /\ result'.events = <<>>
            /\ UNCHANGED program_state]_vars

\* A non-owner's outbound attempt on an existing record has been rejected.
C12_Witness ==
    /\ result.op \in {"burn_nft", "transfer_cross_chain"}
    /\ result.err = "NotOwner"
    /\ result.token_id \in DOMAIN nft_info
    /\ nft_info[result.token_id].owner # result.signer
    /\ balances[Ata(NftMint(result.token_id), result.signer)] >= 1

\* on_call is invoked with bytes that do not decode as a CrossChainNFTTransfer.
OnCallOfMalformed ==
    /\ result'.op = "on_call"
    /\ ~Decoded[result'.data].ok

RevertWithoutOutstanding ==
    /\ result'.op = "on_revert"
    /\ result'.signer = Gateway
    /\ \/ ~Decoded[result'.data].ok
       \/ Decoded[result'.data].token_id \notin DOMAIN nft_info
       \/ ~nft_info[Decoded[result'.data].token_id].is_burned

\* C14: on_revert called by the gateway with data that does not decode, or
\* that names a token with no outstanding transfer, succeeds and mutates
\* nothing: no record is created or changed, and total_supply and
\* next_token_id keep their values.
C14_RevertNoMutation ==
    [][RevertWithoutOutstanding =>
            /\ result'.err = Ok
            /\ UNCHANGED program_state]_vars

\* The gateway has called on_revert with data that does not decode, after a
\* token was minted.
C14_Witness ==
    /\ result.op = "on_revert"
    /\ result.signer = Gateway
    /\ result.err = Ok
    /\ ~Decoded[result.data].ok
    /\ nft_info # <<>>

\* An outbound operation commits: burn_nft or transfer_cross_chain succeeds.
OutboundCommits ==
    /\ result'.op \in {"burn_nft", "transfer_cross_chain"}
    /\ result'.err = Ok

\* C15: every committed burn of the outbound path hands the encoded transfer
\* message of the token to the gateway in the same operation, and an outbound
\* operation that fails, the gateway's rejection included, changes nothing.
C15_AtomicBurnAndSend ==
    [][/\ OutboundCommits =>
            \E call \in gw_outbound' \ gw_outbound :
                /\ call.token_id = result'.token_id
                /\ call.message
                       = EncodeCrossChainMessage(result'.token_id, RecipientAddress, NftUri)
       /\ (result'.op \in {"burn_nft", "transfer_cross_chain"} /\ result'.err # Ok) =>
            UNCHANGED program_state]_vars

\* C16: a record that is burned stays burned: no step of any operation
\* removes it or clears its is_burned.
C16_BurnedTerminal ==
    [][/\ \A t \in DOMAIN nft_info :
            nft_info[t].is_burned => (t \in DOMAIN nft_info' /\ nft_info'[t].is_burned)
       /\ \A m \in DOMAIN nft_info_by_mint :
            nft_info_by_mint[m].is_burned =>
                (m \in DOMAIN nft_info_by_mint' /\ nft_info_by_mint'[m].is_burned)]_vars

\* The gateway's on_revert for a burned token has succeeded and the token's
\* record is burned still.
C16_Witness ==
    /\ result.op = "on_revert"
    /\ result.signer = Gateway
    /\ result.err = Ok
    /\ result.events # <<>>
    /\ result.events[1].token_id \in DOMAIN nft_info
    /\ nft_info[result.events[1].token_id].is_burned
    /\ nft_info[result.events[1].token_id].cross_chain_data # NoOption

\* C17: the revert_message registered with each call transfer_cross_chain
\* hands to the gateway decodes, as on_revert decodes it, to a transfer
\* message that carries the token_id of the transfer.
C17_RevertDataDecodes ==
    \A call \in gw_outbound :
        /\ DecodeNFTTransfer(call.revert_message).ok
        /\ DecodeNFTTransfer(call.revert_message).token_id = call.token_id

\* C18: the record of every minted token is not burned exactly when one unit
\* of the mint it references is outstanding, and a successful burn_nft or
\* transfer_cross_chain of token t takes its unit from the mint that the
\* record of t references and leaves every other mint as it was.
C18_LedgerRef ==
    [][/\ \A t \in DOMAIN nft_info' :
            ~nft_info'[t].is_burned
                <=> SumOver(balances', nft_info'[t].mint, Holders) = 1
       /\ OutboundCommits =>
            \A m \in AllMints :
                SumOver(balances', m, Holders)
                    = IF m = nft_info[result'.token_id].mint
                      THEN Supply(m) - 1 ELSE Supply(m)]_vars

\* C19: the owner recorded for every minted token that is not burned holds a
\* unit of the token's mint in its token account, so that burn_nft signed by
\* the recorded owner passes both the owner check and the burn.
C19_OwnerHoldsUnit ==
    \A t \in DOMAIN nft_info :
        ~nft_info[t].is_burned =>
            /\ balances[Ata(nft_info[t].mint, nft_info[t].owner)] >= 1
            /\ BurnNftError(nft_info[t].owner, t) = Ok

\* C20: transfer_cross_chain signed by the recorded owner of a token that is
\* not burned, whose token account of the token's mint holds exactly one unit,
\* succeeds when the gateway accepts the call: it does not fail for lack of
\* balance.
C20_TransferWithOneUnit ==
    \A t \in DOMAIN nft_info, signer \in Users :
        (/\ nft_info[t].owner = signer
         /\ ~nft_info[t].is_burned
         /\ balances[Ata(nft_info[t].mint, signer)] = 1) =>
            TransferCrossChainError(signer, t, nft_info[t].mint, TRUE) = Ok

\* C21: on_call changes no field of universal_nft_state and no field of any
\* record that existed before the call; a message whose token_id is that of
\* a locally minted token leaves the record of that token as it was.
C21_OnCallFrame ==
    [][result'.op = "on_call" =>
            /\ universal_nft_state' = universal_nft_state
            /\ \A t \in DOMAIN nft_info :
                   t \in DOMAIN nft_info' /\ nft_info'[t] = nft_info[t]
            /\ \A m \in DOMAIN nft_info_by_mint :
                   m \in DOMAIN nft_info_by_mint'
                       /\ nft_info_by_mint'[m] = nft_info_by_mint[m]]_vars

\* on_call has succeeded with a message whose token_id is that of a locally
\* minted token whose record is burned.
C21_Witness ==
    /\ result.op = "on_call"
    /\ result.err = Ok
    /\ Decoded[result.data].token_id \in DOMAIN nft_info
    /\ nft_info[Decoded[result.data].token_id].is_burned

\* C22: whenever burn_nft's owner and is_burned checks pass for some record
\* and signer, total_supply is at least 1, so that the decrement of burn_nft
\* does not underflow.
C22_NoUnderflow ==
    \A t \in DOMAIN nft_info, signer \in Users :
        (nft_info[t].owner = signer /\ ~nft_info[t].is_burned) =>
            /\ universal_nft_state.total_supply >= 1
            /\ ~SubOverflows(universal_nft_state.total_supply, 1)
            /\ BurnNftError(signer, t) # "ProgramPanic"

\* burn_nft has succeeded after a transfer_cross_chain of another token, and
\* a further record still passes its checks.
C22_Witness ==
    /\ result.op = "burn_nft"
    /\ result.err = Ok
    /\ \E t \in DOMAIN nft_info :
           nft_info[t].is_burned /\ nft_info[t].cross_chain_data # NoOption
    /\ \E t \in DOMAIN nft_info : ~nft_info[t].is_burned

=============================================================================
